---- MODULE Spec2Model ----
(***************************************************************************)
(* BK-tree (pybktree.py): levenshtein_distance and the class BKTree with   *)
(* add, find and __iter__.                                                 *)
(*                                                                         *)
(* The heap of (item, children_dict) tuples reachable from self.tree is    *)
(* the sequence `tree`: node k is the k-th tuple created, node 1 is the    *)
(* root, and the empty sequence is self.tree = None.  A children dict is a *)
(* function from the distances used as keys to the node stored there; a    *)
(* dict iterates in insertion order, which is ascending node number.       *)
(***************************************************************************)
EXTENDS Integers, Sequences, FiniteSets, TLC

VARIABLES
  distance_func,  \* self.distance_func, as the table of its values
  tree,           \* self.tree
  inserted,       \* history: the argument of every add call, in call order
  add_pc,         \* add: "idle", or "loop" while the descent is running
  add_item,       \* add: its parameter `item`
  add_node,       \* add: its local `node`
  last,           \* the operation that returned last
  query,          \* find: its parameter `item`
  n,              \* find: its parameter `n`
  found,          \* find: the list it returned
  it_pc,          \* generator of __iter__: "none", "created", "suspended", "done"
  candidates,     \* generator: its deque
  candidate,      \* generator: the node it is suspended on at the yield
  yielded,        \* history: the nodes the generator has yielded, in order
  it_n0,          \* history: the number of nodes when the generator's body began to run
  skipped,        \* history: nodes attached where the generator had already passed
  source,         \* levenshtein_distance: first argument
  target,         \* levenshtein_distance: second argument
  lev_pc,         \* levenshtein_distance: "call" or "done"
  lev_result      \* levenshtein_distance: the value returned

vars == <<distance_func, tree, inserted, add_pc, add_item, add_node, last,
          query, n, found, it_pc, candidates, candidate, yielded, it_n0,
          skipped, source, target, lev_pc, lev_result>>

addVars  == <<add_pc, add_item, add_node>>
findVars == <<query, n, found>>
iterVars == <<it_pc, candidates, candidate, yielded, it_n0>>
levVars  == <<source, target, lev_pc, lev_result>>

-----------------------------------------------------------------------------
(* Bounds *)

MaxAdds == 3    \* add calls per behaviour
MaxN == 2       \* largest radius passed to find (the smallest is -1)
MaxLen == 3     \* longest argument of levenshtein_distance

Alphabet == {"a", "b"}

\* All sequences over Alphabet of length at most k.
RECURSIVE StringsUpTo(_)
StringsUpTo(k) ==
  IF k = 0 THEN {<<>>}
  ELSE LET shorter == StringsUpTo(k - 1)
       IN shorter \cup {Append(s, c) : s \in {t \in shorter : Len(t) = k - 1}, c \in Alphabet}

\* The items handed to add and find.
Items == {<<>>, <<"a">>, <<"b">>, <<"a", "b">>}

None == 0
EmptyDict == [d \in {} |-> None]

Min(a, b) == IF a <= b THEN a ELSE b
Abs(a) == IF a < 0 THEN 0 - a ELSE a

-----------------------------------------------------------------------------
(* levenshtein_distance *)

\* Faulty variant: a substitution costs nothing.
LevCellFreeSubstitution(left, up, diagonal, same) ==
  IF same THEN diagonal ELSE Min(Min(left + 1, up + 1), diagonal)

\* The new levDist[i]: left is levDist[i - 1], up is the old levDist[i].
LevCell(left, up, diagonal, same) ==
  IF same THEN diagonal ELSE Min(Min(left + 1, up + 1), diagonal + 1)

\* for i in range(1, minSize + 1), from i on.
RECURSIVE LevInner(_, _, _, _, _, _)
LevInner(levDist, diagonal, src, tgt, j, i) ==
  IF i > Len(src) THEN levDist
  ELSE LET save == levDist[i]
           cell == LevCell(levDist[i - 1], levDist[i], diagonal, src[i] = tgt[j])
       IN LevInner([levDist EXCEPT ![i] = cell], save, src, tgt, j, i + 1)

\* for j in range(1, maxSize + 1), from j on.
RECURSIVE LevOuter(_, _, _, _)
LevOuter(levDist, src, tgt, j) ==
  IF j > Len(tgt) THEN levDist
  ELSE LevOuter(LevInner([levDist EXCEPT ![0] = @ + 1], levDist[0], src, tgt, j, 1),
                src, tgt, j + 1)

RECURSIVE levenshtein_distance(_, _)
levenshtein_distance(src, tgt) ==
  IF Len(src) > Len(tgt) THEN levenshtein_distance(tgt, src)
  ELSE LET minSize == Len(src)
           levDist == [i \in 0..minSize |-> i]
       IN LevOuter(levDist, src, tgt, 1)[minSize]

-----------------------------------------------------------------------------
(* The distance functions a caller binds the tree to *)

Table(Op(_, _)) == [p \in Items \X Items |-> Op(p[1], p[2])]

Discrete(a, b)      == IF a = b THEN 0 ELSE 1
LengthGap(a, b)     == Abs(Len(a) - Len(b))
FirstLength(a, b)   == Len(a)
AlwaysOne(a, b)     == 1
SquaredGap(a, b)    == (Len(a) - Len(b)) * (Len(a) - Len(b))

DistFuncs ==
  { Table(levenshtein_distance),  \* the reference metric
    Table(Discrete),              \* a metric
    Table(LengthGap),             \* a metric with distance 0 between distinct items
    Table(FirstLength),           \* not symmetric, distance(x, x) # 0
    Table(AlwaysOne),             \* distance(x, x) # 0
    Table(SquaredGap) }           \* violates the triangle inequality

Identity(df)  == \A x \in Items : df[x, x] = 0
Symmetric(df) == \A x, y \in Items : df[x, y] = df[y, x]
Triangle(df)  == \A x, y, z \in Items : df[x, z] <= df[x, y] + df[y, z]
IsMetric(df)  == Identity(df) /\ Symmetric(df) /\ Triangle(df)

-----------------------------------------------------------------------------
(* Nodes and dicts *)

Node(item) == [value |-> item, children |-> EmptyDict]

\* Faulty variant: the lookup never finds the key.
get_never(children, distance) == None

\* children.get(distance)
get(children, distance) ==
  IF distance \in DOMAIN children THEN children[distance] ELSE None

\* The ascending sequence of a finite set of integers.
RECURSIVE Ascending(_)
Ascending(S) ==
  IF S = {} THEN <<>>
  ELSE LET m == CHOOSE x \in S : \A y \in S : x <= y
       IN <<m>> \o Ascending(S \ {m})

Range(f) == {f[x] : x \in DOMAIN f}
KeyOf(children, c) == CHOOSE d \in DOMAIN children : children[d] = c

\* Faulty variant: the last child is left out.
values_short(children) ==
  LET all == Ascending(Range(children))
  IN IF all = <<>> THEN all ELSE SubSeq(all, 1, Len(all) - 1)

\* children.values(): the child nodes in insertion order.
values(children) == Ascending(Range(children))

\* children.items(): the (d, c) pairs in insertion order.
items(children) ==
  LET cs == values(children)
  IN [k \in 1..Len(cs) |-> <<KeyOf(children, cs[k]), cs[k]>>]

\* children[distance] = (item, {}) on node p; the new tuple is node Len(t) + 1.
setitem(t, p, distance, item) ==
  LET new == Len(t) + 1
      old == t[p].children
      upd == [d \in DOMAIN old \cup {distance} |-> IF d = distance THEN new ELSE old[d]]
  IN Append([t EXCEPT ![p].children = upd], Node(item))

\* The nodes of the subtree rooted at node c.
RECURSIVE Subtree(_, _)
Subtree(t, c) ==
  {c} \cup UNION {Subtree(t, k) : k \in Range(t[c].children)}

-----------------------------------------------------------------------------
(* BKTree.add *)

\* Faulty variant: the distance is always taken to the root's item.
add_distance_to_root(df, t, item, node) == df[item, t[1].value]

\* distance = _distance_func(item, parent), parent being the item of `node`.
add_distance(df, t, item, node) == df[item, t[node].value]

\* Faulty variant: the lookup's result is not stored in `node`.
add_step_stuck(t, df, item, node) ==
  LET children == t[node].children
      distance == add_distance(df, t, item, node)
  IN IF get(children, distance) = None
     THEN [tree |-> setitem(t, node, distance, item), node |-> None, pc |-> "idle"]
     ELSE [tree |-> t, node |-> node, pc |-> "loop"]

\* One pass of the `while True` loop.
add_step(t, df, item, node) ==
  LET children == t[node].children
      distance == add_distance(df, t, item, node)
      next == get(children, distance)
  IN IF next = None
     THEN [tree |-> setitem(t, node, distance, item), node |-> None, pc |-> "idle"]
     ELSE [tree |-> t, node |-> next, pc |-> "loop"]

-----------------------------------------------------------------------------
(* BKTree.find *)

\* Faulty variant: the lower end of the interval is excluded.
InRangeOpenBelow(lower, d, upper) == lower < d /\ d <= upper

\* lower <= d <= upper
InRange(lower, d, upper) == lower <= d /\ d <= upper

\* Faulty variant: the radius is taken one too large.
WithinOffByOne(distance, r) == distance <= r + 1

\* distance <= n
Within(distance, r) == distance <= r

\* Faulty variant: the list is returned in the order of discovery.
sort_skipped(list) == list

\* list.sort(key=itemgetter(0)): stable, ascending in the first component.
RECURSIVE sort(_)
sort(list) ==
  IF list = <<>> THEN <<>>
  ELSE LET rest == sort(SubSeq(list, 1, Len(list) - 1))
           x == list[Len(list)]
           before == SelectSeq(rest, LAMBDA y : y[1] <= x[1])
           after == SelectSeq(rest, LAMBDA y : y[1] > x[1])
       IN before \o <<x>> \o after

\* The `while candidates` loop; fnd is the list `found`, queue the deque.
RECURSIVE FindLoop(_, _, _, _, _, _)
FindLoop(t, df, item, r, queue, fnd) ==
  IF queue = <<>> THEN fnd
  ELSE LET c == Head(queue)
           cand == t[c].value
           children == t[c].children
           distance == df[cand, item]
           fnd1 == IF Within(distance, r) THEN Append(fnd, <<distance, cand>>) ELSE fnd
           lower == distance - r
           upper == distance + r
           more == IF DOMAIN children # {}
                   THEN LET kept == SelectSeq(items(children),
                                              LAMBDA e : InRange(lower, e[1], upper))
                        IN [k \in 1..Len(kept) |-> kept[k][2]]
                   ELSE <<>>
       IN FindLoop(t, df, item, r, Tail(queue) \o more, fnd1)

\* Faulty variant: a root that is not within the radius loses its children.
find_pruning_tree(t, df, item, r) ==
  IF t = <<>> THEN [tree |-> t, found |-> <<>>]
  ELSE [tree |-> [t EXCEPT ![1].children =
                     IF df[t[1].value, item] <= r THEN @ ELSE EmptyDict],
        found |-> sort(FindLoop(t, df, item, r, <<1>>, <<>>))]

\* find(item, n): the list returned and the tree as the call leaves it.
find(t, df, item, r) ==
  IF t = <<>> THEN [tree |-> t, found |-> <<>>]
  ELSE [tree |-> t, found |-> sort(FindLoop(t, df, item, r, <<1>>, <<>>))]

-----------------------------------------------------------------------------
(* BKTree.__iter__ *)

\* Faulty variant: the children are queued before the item is yielded.
iter_resume_eager(t, pc, queue, cand) ==
  LET q == IF pc = "created" THEN (IF t = <<>> THEN <<>> ELSE <<1>>) ELSE queue
  IN IF q = <<>>
     THEN [pc |-> "done", candidates |-> <<>>, candidate |-> None]
     ELSE [pc |-> "suspended",
           candidates |-> Tail(q) \o values(t[Head(q)].children),
           candidate |-> Head(q)]

\* One resumption of the generator: from its start or from the yield up to
\* the next yield or the end of the body.
iter_resume(t, pc, queue, cand) ==
  LET q == IF pc = "created"
           THEN (IF t = <<>> THEN <<>> ELSE <<1>>)
           ELSE queue \o values(t[cand].children)
  IN IF q = <<>>
     THEN [pc |-> "done", candidates |-> <<>>, candidate |-> None]
     ELSE [pc |-> "suspended", candidates |-> Tail(q), candidate |-> Head(q)]

-----------------------------------------------------------------------------
(* State machine *)

Init ==
  /\ distance_func \in DistFuncs
  /\ tree = <<>>
  /\ inserted = <<>>
  /\ add_pc = "idle" /\ add_item = None /\ add_node = None
  /\ last = "init"
  /\ query = None /\ n = 0 /\ found = <<>>
  /\ it_pc = "none" /\ candidates = <<>> /\ candidate = None
  /\ yielded = <<>> /\ it_n0 = 0 /\ skipped = {}
  /\ source = <<>> /\ target = <<>> /\ lev_pc = "done" /\ lev_result = 0

\* The nodes whose children the generator has already queued.
Expanded ==
  {yielded[k] : k \in 1..Len(yielded)} \ (IF it_pc = "suspended" THEN {candidate} ELSE {})

\* A node attached under p now is out of the generator's reach.
Passed(p) ==
  \/ it_pc = "done"
  \/ it_pc \in {"created", "suspended"} /\ p \in Expanded \cup skipped

NoFind == query' = None /\ n' = 0 /\ found' = <<>>

\* add(item) up to the loop: the empty tree takes the item as its root.
AddCall(item) ==
  /\ add_pc = "idle"
  /\ Len(inserted) < MaxAdds
  /\ inserted' = Append(inserted, item)
  /\ last' = "add"
  /\ NoFind
  /\ IF tree = <<>>
     THEN /\ tree' = <<Node(item)>>
          /\ skipped' = IF Passed(None) THEN skipped \cup {1} ELSE skipped
          /\ UNCHANGED addVars
     ELSE /\ add_pc' = "loop" /\ add_item' = item /\ add_node' = 1
          /\ UNCHANGED <<tree, skipped>>
  /\ UNCHANGED <<distance_func, iterVars, levVars>>

\* add(item): one pass of the loop.
AddLoop ==
  /\ add_pc = "loop"
  /\ LET r == add_step(tree, distance_func, add_item, add_node)
     IN /\ tree' = r.tree
        /\ add_pc' = r.pc
        /\ add_node' = r.node
        /\ add_item' = IF r.pc = "idle" THEN None ELSE add_item
        /\ skipped' = IF r.pc = "idle" /\ Passed(add_node)
                      THEN skipped \cup {Len(tree) + 1} ELSE skipped
  /\ UNCHANGED <<distance_func, inserted, last, findVars, iterVars, levVars>>

\* find(item, n)
Find(item, r) ==
  /\ add_pc = "idle"
  /\ LET res == find(tree, distance_func, item, r)
     IN tree' = res.tree /\ found' = res.found
  /\ query' = item /\ n' = r
  /\ last' = "find"
  /\ UNCHANGED <<distance_func, inserted, addVars, iterVars, skipped, levVars>>

\* iter(tree): the generator object is created, its body has not run yet.
IterNew ==
  /\ add_pc = "idle"
  /\ it_pc' = "created" /\ candidates' = <<>> /\ candidate' = None
  /\ yielded' = <<>> /\ it_n0' = Len(tree) /\ skipped' = {}
  /\ last' = "iter"
  /\ NoFind
  /\ UNCHANGED <<distance_func, tree, inserted, addVars, levVars>>

\* next(generator)
IterNext ==
  /\ add_pc = "idle"
  /\ it_pc \in {"created", "suspended"}
  /\ LET r == iter_resume(tree, it_pc, candidates, candidate)
     IN /\ it_pc' = r.pc /\ candidates' = r.candidates /\ candidate' = r.candidate
        /\ yielded' = IF r.pc = "suspended" THEN Append(yielded, r.candidate) ELSE yielded
  /\ it_n0' = IF it_pc = "created" THEN Len(tree) ELSE it_n0
  /\ last' = "next"
  /\ NoFind
  /\ UNCHANGED <<distance_func, tree, inserted, addVars, skipped, levVars>>

\* A caller that adds and searches.
Next ==
  \/ \E item \in Items : AddCall(item)
  \/ AddLoop
  \/ \E item \in Items, r \in (0 - 1)..MaxN : Find(item, r)

Spec == Init /\ [][Next]_vars

\* A caller that adds and traverses.
IterStep ==
  \/ \E item \in Items : AddCall(item)
  \/ AddLoop
  \/ IterNew
  \/ IterNext

IterSpec == Init /\ [][IterStep]_vars

\* A caller that adds; a running add call is not suspended for ever.
AddStep ==
  \/ \E item \in Items : AddCall(item)
  \/ AddLoop

AddSpec == Init /\ [][AddStep]_vars /\ WF_vars(AddLoop)

\* A caller of levenshtein_distance.
LevInit ==
  /\ distance_func = Table(levenshtein_distance)
  /\ tree = <<>>
  /\ inserted = <<>>
  /\ add_pc = "idle" /\ add_item = None /\ add_node = None
  /\ last = "init"
  /\ query = None /\ n = 0 /\ found = <<>>
  /\ it_pc = "none" /\ candidates = <<>> /\ candidate = None
  /\ yielded = <<>> /\ it_n0 = 0 /\ skipped = {}
  /\ source \in StringsUpTo(MaxLen) /\ target \in StringsUpTo(MaxLen)
  /\ lev_pc = "call" /\ lev_result = 0

LevCall ==
  /\ lev_pc = "call"
  /\ lev_result' = levenshtein_distance(source, target)
  /\ lev_pc' = "done"
  /\ UNCHANGED <<distance_func, tree, inserted, addVars, last, findVars, iterVars,
                 skipped, source, target>>

LevSpec == LevInit /\ [][LevCall]_vars

-----------------------------------------------------------------------------
(* Notions the properties are stated with *)

Count(seq, x) == Cardinality({k \in 1..Len(seq) : seq[k] = x})
Distinct(seq) == \A j, k \in 1..Len(seq) : j # k => seq[j] # seq[k]
FoundItems == [k \in 1..Len(found) |-> found[k][2]]
YieldedItems == [k \in 1..Len(yielded) |-> tree[yielded[k]].value]
YieldedNodes == {yielded[k] : k \in 1..Len(yielded)}
Extended(children, d, c) ==
  [e \in DOMAIN children \cup {d} |-> IF e = d THEN c ELSE children[e]]
\* Some node has a grandchild.
Deep == \E p \in 1..Len(tree) : \E c \in Range(tree[p].children) : tree[c].children # EmptyDict

\* Edit distance by its definition: the least number of single-element
\* insertions, deletions and substitutions leading from a to b.  A shortest
\* script can delete first and insert last, so it needs no sequence longer
\* than the longer of a and b.
Edits(s, cap) ==
  {SubSeq(s, 1, i - 1) \o SubSeq(s, i + 1, Len(s)) : i \in 1..Len(s)}
  \cup {[s EXCEPT ![i] = c] : i \in 1..Len(s), c \in Alphabet}
  \cup (IF Len(s) < cap
        THEN {SubSeq(s, 1, i) \o <<c>> \o SubSeq(s, i + 1, Len(s)) : i \in 0..Len(s), c \in Alphabet}
        ELSE {})

RECURSIVE WithinEdits(_, _, _)
WithinEdits(a, k, cap) ==
  IF k = 0 THEN {a}
  ELSE LET near == WithinEdits(a, k - 1, cap)
       IN near \cup UNION {Edits(s, cap) : s \in near}

RECURSIVE LeastEdits(_, _, _, _)
LeastEdits(a, b, k, cap) ==
  IF b \in WithinEdits(a, k, cap) THEN k ELSE LeastEdits(a, b, k + 1, cap)

EditDistance(a, b) == LeastEdits(a, b, 0, IF Len(a) > Len(b) THEN Len(a) ELSE Len(b))

-----------------------------------------------------------------------------
(* Properties *)

\* C1: with a distance function that satisfies identity, symmetry and the
\* triangle inequality, find(q, n) with n >= 0 returns every inserted item
\* within distance n of q as often as it was inserted, and nothing else.
FindEqualsLinearScan ==
  (last = "find" /\ n >= 0 /\ IsMetric(distance_func)) =>
    \A x \in Items :
      Count(FoundItems, x) =
        IF distance_func[x, query] <= n THEN Count(inserted, x) ELSE 0

\* A search that found some items, missed others, and left a child of the
\* root out of the queue.
FindEqualsLinearScanWitness ==
  /\ last = "find" /\ n >= 0 /\ IsMetric(distance_func)
  /\ Len(inserted) = 3
  /\ Len(found) \in 1..2
  /\ \E d \in DOMAIN tree[1].children :
        ~InRange(distance_func[tree[1].value, query] - n, d,
                 distance_func[tree[1].value, query] + n)

\* C2: every pair (d, item) that find(q, n) returns has d = distance(item, q)
\* and d <= n.
FindDistancesExact ==
  last = "find" =>
    \A k \in 1..Len(found) :
      /\ found[k][1] = distance_func[found[k][2], query]
      /\ found[k][1] <= n

FindDistancesExactWitness ==
  /\ last = "find"
  /\ Len(found) >= 2
  /\ ~Symmetric(distance_func)
  /\ found[1][1] # found[2][1]

IterIsSnapshot ==
  /\ \A k \in 1..Len(yielded) : yielded[k] <= it_n0
  /\ (it_pc = "done" /\ it_n0 = Len(tree)) => YieldedNodes = 1..Len(tree)

\* C4 amended: a traversal yields a node added after it was started
\* exactly when the node was attached where the traversal had not passed yet:
\* below a node whose children were not queued so far.  Nodes attached below
\* a node whose children were already queued, below a node so missed, or
\* after the traversal ended are not yielded by it.  A traversal started
\* afterwards has passed nothing and yields every node.
IterYieldsUnpassed ==
  /\ Distinct(yielded)
  /\ YieldedNodes \cap skipped = {}
  /\ skipped \subseteq (it_n0 + 1)..Len(tree)
  /\ it_pc = "done" => YieldedNodes = (1..Len(tree)) \ skipped

\* A running traversal that has yielded one node added after its start and
\* missed another.
IterYieldsUnpassedWitness ==
  /\ it_pc = "suspended"
  /\ skipped # {}
  /\ \E k \in 1..Len(yielded) : yielded[k] > it_n0

\* C5: the list find returns is ascending in the distance.
FindSorted ==
  last = "find" =>
    \A k \in 1..(Len(found) - 1) : found[k][1] <= found[k + 1][1]

\* A result whose order of discovery was not ascending.
FindSortedWitness ==
  /\ last = "find"
  /\ Len(found) >= 2
  /\ found # FindLoop(tree, distance_func, query, n, <<1>>, <<>>)

\* C6: a find call leaves the tree as it was, also with a negative n.
FindLeavesTree == [][last' = "find" => tree' = tree]_vars

\* A search with a negative radius in a tree whose root has children.
FindLeavesTreeWitness ==
  /\ last = "find"
  /\ n < 0
  /\ Len(tree) >= 2

\* C7: levenshtein_distance(a, b) is the edit distance of a and b, and is 0
\* exactly when a = b.
LevIsEditDistance ==
  lev_pc = "done" =>
    /\ lev_result = EditDistance(source, target)
    /\ (lev_result = 0 <=> source = target)

\* A call with the longer argument first that needs a deletion and a
\* substitution.
LevIsEditDistanceWitness ==
  /\ lev_pc = "done"
  /\ Len(source) = 3 /\ Len(target) = 2
  /\ lev_result = 2

\* C8: with a symmetric distance function, every item in the subtree under
\* key d of a node p is at distance d from p's item.
EdgeLabelsHold ==
  Symmetric(distance_func) =>
    \A p \in 1..Len(tree) : \A d \in DOMAIN tree[p].children :
      \A c \in Subtree(tree, tree[p].children[d]) :
        distance_func[tree[p].value, tree[c].value] = d

\* Three nodes in a chain: the last add call went through a used key.
EdgeLabelsHoldWitness ==
  /\ Symmetric(distance_func)
  /\ add_pc = "idle"
  /\ Len(tree) = 3
  /\ Deep
  /\ tree[1].value # tree[3].value

\* C9: a step that changes the tree adds one node, holding the item of the
\* add call and no children, as the root of the empty tree or under a key
\* its parent did not use; every other node keeps its item and its edges.
\* Every add call that returns has made such a step.
AddAppendsOneLeaf ==
  LET new == Len(tree) + 1
      item == IF tree = <<>> THEN inserted'[Len(inserted')] ELSE add_item
  IN /\ tree' # tree =>
          /\ Len(tree') = new
          /\ tree'[new] = Node(item)
          /\ \A k \in 1..Len(tree) : tree'[k].value = tree[k].value
          /\ tree # <<>> =>
                \E p \in 1..Len(tree) : \E d \in DOMAIN tree'[p].children :
                   /\ d \notin DOMAIN tree[p].children
                   /\ tree'[p].children = Extended(tree[p].children, d, new)
                   /\ \A k \in 1..Len(tree) : k # p => tree'[k].children = tree[k].children
     /\ (add_pc' = "idle" /\ (add_pc = "loop" \/ inserted' # inserted)) => tree' # tree

AddIsAppendOnly == [][AddAppendsOneLeaf]_vars

\* A tree built by three add calls, the last of which went through a used key.
AddIsAppendOnlyWitness ==
  /\ add_pc = "idle"
  /\ Len(tree) = 3
  /\ Deep

\* C10: a running add call returns, with its item stored in the node created
\* last, whatever the distance function.
AddTerminates ==
  (add_pc = "loop") ~>
     (/\ add_pc = "idle"
      /\ tree # <<>>
      /\ Len(tree) = Len(inserted)
      /\ tree[Len(tree)].value = inserted[Len(inserted)])

\* A descent below the root under a distance function that is no metric.
AddTerminatesWitness ==
  /\ add_pc = "loop"
  /\ add_node > 1
  /\ ~Triangle(distance_func)

====
